---------------------------- MODULE Spec2Model ----------------------------
(***************************************************************************)
(* A model of src/app.py (VIZON): the start-up credential check, the       *)
(* sidebar input branches, scrape_url, gemini_data_extractor with          *)
(* clean_json_string / json.loads / pd.DataFrame, and the dashboard-or-    *)
(* landing branch with the chat interface.                                 *)
(*                                                                         *)
(* A text is a tuple of one-character strings.  One action of the model    *)
(* is one user interaction together with the whole script run that         *)
(* Streamlit starts for it.                                                *)
(***************************************************************************)
EXTENDS Integers, Sequences, FiniteSets, TLC

(***************************************************************************)
(* Bounds of the model.                                                    *)
(***************************************************************************)
\* longest free text (over TextAlphabet) fed to the normalizer
MaxTextLen == 5
\* most pieces (a grave accent, the word json, a space) in a fence-fragment text
MaxPieces == 7
\* most records in a generated JSON array
MaxRecords == 2
\* most keys in a generated record
MaxKeys == 2
\* most entries kept in the session's chat history
MaxChat == 3
\* how far a fetched page's visible text may exceed the truncation limit
MaxOver == 1

(***************************************************************************)
(* Text primitives: str.replace, str.strip, slicing.                       *)
(***************************************************************************)
\* BT stands for the grave accent (U+0060), the character of a markdown fence;
\* the accent itself cannot be written inside a string literal of the module
BT == "'"
NL == "\n"
SP == " "
DQ == "\""

\* string.whitespace restricted to the characters of the model
Whitespace == {SP, NL}

FenceJson == <<BT, BT, BT, "j", "s", "o", "n">>
Fence == <<BT, BT, BT>>

RECURSIVE Replace(_, _)
\* text.replace(old, ""): left to right, non-overlapping occurrences removed
Replace(text, old) ==
    IF Len(text) < Len(old) THEN text
    ELSE IF SubSeq(text, 1, Len(old)) = old
         THEN Replace(SubSeq(text, Len(old) + 1, Len(text)), old)
         ELSE <<Head(text)>> \o Replace(Tail(text), old)

RECURSIVE LStrip(_)
LStrip(text) ==
    IF text # <<>> /\ Head(text) \in Whitespace THEN LStrip(Tail(text)) ELSE text

RECURSIVE RStrip(_)
RStrip(text) ==
    IF text # <<>> /\ text[Len(text)] \in Whitespace
    THEN RStrip(SubSeq(text, 1, Len(text) - 1))
    ELSE text

\* text.strip()
Strip(text) == RStrip(LStrip(text))

\* clean_json_string without its second replace: only the json-tagged fence goes
clean_json_string_tagged_only(text) == Strip(Replace(text, FenceJson))

\* def clean_json_string(text)
clean_json_string(text) == Strip(Replace(Replace(text, FenceJson), Fence))

(***************************************************************************)
(* json.loads (the scanner of the standard json module) on the characters  *)
(* of the model: objects, arrays, strings and numbers.  The literals       *)
(* null, true, false, NaN and Infinity cannot be spelled with the model's  *)
(* characters, and the model has no backslash, sign, point or exponent.    *)
(* A value is [t |-> tag, v |-> payload]; a dict is the tuple of its       *)
(* <<key, value>> pairs in insertion order.                                *)
(***************************************************************************)
Digits == {"1", "2"}

DigitValue(c) == IF c = "1" THEN 1 ELSE 2

Num(n) == [t |-> "num", v |-> n]
Str(text) == [t |-> "str", v |-> text]
Arr(values) == [t |-> "arr", v |-> values]
Obj(pairs) == [t |-> "obj", v |-> pairs]
\* the cell pandas puts where a record has no value (NaN)
NaN == [t |-> "nan", v |-> <<>>]

Parsed(val, end) == [ok |-> TRUE, val |-> val, end |-> end, msg |-> "",
                     exc |-> ""]
JSONDecodeError(msg, pos) == [ok |-> FALSE, val |-> NaN, end |-> pos, msg |-> msg,
                              exc |-> "JSONDecodeError"]

RECURSIVE SkipWS(_, _)
\* WHITESPACE.match(s, idx).end()
SkipWS(s, idx) ==
    IF idx <= Len(s) /\ s[idx] \in Whitespace THEN SkipWS(s, idx + 1) ELSE idx

RECURSIVE scanstring(_, _, _)
\* py_scanstring, entered after the opening quote; strict: no control character
scanstring(s, idx, acc) ==
    IF idx > Len(s) THEN JSONDecodeError("Unterminated string starting at", idx)
    ELSE IF s[idx] = DQ THEN Parsed(acc, idx + 1)
    ELSE IF s[idx] = NL THEN JSONDecodeError("Invalid control character at", idx)
    ELSE scanstring(s, idx + 1, Append(acc, s[idx]))

RECURSIVE match_number(_, _, _)
\* NUMBER_RE on the digits of the model: the longest run of digits, as an int
match_number(s, idx, n) ==
    IF idx <= Len(s) /\ s[idx] \in Digits
    THEN match_number(s, idx + 1, 10 * n + DigitValue(s[idx]))
    ELSE Parsed(Num(n), idx)

RECURSIVE DictSet(_, _, _)
\* pairs[key] = val on a dict: a repeated key keeps its place, takes the new value
DictSet(pairs, key, val) ==
    IF pairs = <<>> THEN << <<key, val>> >>
    ELSE IF Head(pairs)[1] = key THEN << <<key, val>> >> \o Tail(pairs)
    ELSE <<Head(pairs)>> \o DictSet(Tail(pairs), key, val)

RECURSIVE scan_once(_, _)
RECURSIVE ObjectLoop(_, _, _)
RECURSIVE ArrayLoop(_, _, _)

\* JSONObject's loop, entered at the opening quote of a key
ObjectLoop(s, idx, pairs) ==
    LET k == scanstring(s, idx + 1, <<>>)
        c == SkipWS(s, k.end)
        v == scan_once(s, SkipWS(s, c + 1))
        now == DictSet(pairs, k.val, v.val)
        j == SkipWS(s, v.end)
        q == SkipWS(s, j + 1)
    IN  IF ~k.ok THEN k
        ELSE IF c > Len(s) \/ s[c] # ":"
             THEN JSONDecodeError("Expecting ':' delimiter", c)
        ELSE IF ~v.ok THEN v
        ELSE IF j <= Len(s) /\ s[j] = "}" THEN Parsed(Obj(now), j + 1)
        ELSE IF j > Len(s) \/ s[j] # ","
             THEN JSONDecodeError("Expecting ',' delimiter", j)
        ELSE IF q > Len(s) \/ s[q] # DQ
             THEN JSONDecodeError("Expecting property name enclosed in double quotes", q)
        ELSE ObjectLoop(s, q, now)

\* JSONObject, entered after the opening brace
JSONObject(s, idx) ==
    LET i == SkipWS(s, idx)
    IN  IF i <= Len(s) /\ s[i] = "}" THEN Parsed(Obj(<<>>), i + 1)
        ELSE IF i > Len(s) \/ s[i] # DQ
             THEN JSONDecodeError("Expecting property name enclosed in double quotes", i)
        ELSE ObjectLoop(s, i, <<>>)

\* JSONArray's loop, entered at the start of an element
ArrayLoop(s, idx, values) ==
    LET v == scan_once(s, idx)
        now == Append(values, v.val)
        j == SkipWS(s, v.end)
    IN  IF ~v.ok THEN v
        ELSE IF j <= Len(s) /\ s[j] = "]" THEN Parsed(Arr(now), j + 1)
        ELSE IF j > Len(s) \/ s[j] # ","
             THEN JSONDecodeError("Expecting ',' delimiter", j)
        ELSE ArrayLoop(s, SkipWS(s, j + 1), now)

\* JSONArray, entered after the opening bracket
JSONArray(s, idx) ==
    LET i == SkipWS(s, idx)
    IN  IF i <= Len(s) /\ s[i] = "]" THEN Parsed(Arr(<<>>), i + 1)
        ELSE ArrayLoop(s, i, <<>>)

\* the scanner's scan_once(string, idx)
scan_once(s, idx) ==
    IF idx > Len(s) THEN JSONDecodeError("Expecting value", idx)
    ELSE IF s[idx] = DQ
         THEN LET r == scanstring(s, idx + 1, <<>>)
              IN  IF r.ok THEN Parsed(Str(r.val), r.end) ELSE r
    ELSE IF s[idx] = "{" THEN JSONObject(s, idx + 1)
    ELSE IF s[idx] = "[" THEN JSONArray(s, idx + 1)
    ELSE IF s[idx] \in Digits THEN match_number(s, idx, 0)
    ELSE JSONDecodeError("Expecting value", idx)

\* json.loads(s): JSONDecoder.decode
json_loads(s) ==
    LET r == scan_once(s, SkipWS(s, 1))
        end == SkipWS(s, r.end)
    IN  IF ~r.ok THEN r
        ELSE IF end # Len(s) + 1 THEN JSONDecodeError("Extra data", end)
        ELSE r

(***************************************************************************)
(* pd.DataFrame(data) for the data json.loads can hand it.  A table is     *)
(* [columns |-> labels, rows |-> rows], a row the tuple of its cells in    *)
(* column order.  Shapes the model never builds (a list mixing scalars     *)
(* with containers, a list of lists, a dict of containers) have no branch. *)
(***************************************************************************)
EmptyDF == [columns |-> <<>>, rows |-> <<>>]

\* df.empty: some axis has length 0
IsEmpty(df) == Len(df.columns) = 0 \/ Len(df.rows) = 0

Built(df) == [ok |-> TRUE, df |-> df, exc |-> "", msg |-> ""]
Raised(exc, msg) == [ok |-> FALSE, df |-> EmptyDF, exc |-> exc, msg |-> msg]

IsScalar(val) == val.t \in {"num", "str"}

\* a column label: a record's key, or a position of the default RangeIndex
KeyLabel(key) == [t |-> "key", v |-> key]
IntLabel(n) == [t |-> "int", v |-> n]

RECURSIVE AppendNew(_, _)
\* the keys of one dict appended to the columns seen so far, each once
AppendNew(columns, pairs) ==
    IF pairs = <<>> THEN columns
    ELSE LET label == KeyLabel(Head(pairs)[1])
         IN  AppendNew(IF \E i \in 1..Len(columns) : columns[i] = label
                       THEN columns ELSE Append(columns, label),
                       Tail(pairs))

RECURSIVE fast_unique_multiple_list_gen(_, _)
\* the union of the records' keys in first-seen order (sort = False for dicts)
fast_unique_multiple_list_gen(records, columns) ==
    IF records = <<>> THEN columns
    ELSE fast_unique_multiple_list_gen(Tail(records),
                                       AppendNew(columns, Head(records).v))

\* dicts_to_array: one record's cell under a column, NaN where the key is missing
Cell(pairs, label) ==
    IF \E i \in 1..Len(pairs) : pairs[i][1] = label.v
    THEN pairs[CHOOSE i \in 1..Len(pairs) : pairs[i][1] = label.v][2]
    ELSE NaN

\* _list_of_dict_to_arrays
list_of_dict_to_arrays(records) ==
    LET columns == fast_unique_multiple_list_gen(records, <<>>)
    IN  [columns |-> columns,
         rows |-> [r \in 1..Len(records) |->
                     [c \in 1..Len(columns) |-> Cell(records[r].v, columns[c])]]]

\* pd.DataFrame(data)
DataFrame(data) ==
    CASE data.t \in {"num", "str"} ->
           Raised("ValueError", "DataFrame constructor not properly called!")
      [] data.t = "obj" /\ data.v = <<>> -> Built(EmptyDF)
      [] data.t = "obj" /\ data.v # <<>>
           /\ \A i \in 1..Len(data.v) : IsScalar(data.v[i][2]) ->
           Raised("ValueError", "If using all scalar values, you must pass an index")
      [] data.t = "arr" /\ data.v = <<>> -> Built(EmptyDF)
      [] data.t = "arr" /\ data.v # <<>> /\ data.v[1].t = "obj"
           /\ \A i \in 1..Len(data.v) : data.v[i].t = "obj" ->
           Built(list_of_dict_to_arrays(data.v))
      [] data.t = "arr" /\ data.v # <<>> /\ data.v[1].t = "obj"
           /\ \E i \in 1..Len(data.v) : data.v[i].t # "obj" ->
           Raised("AttributeError", "object has no attribute 'keys'")
      [] data.t = "arr" /\ data.v # <<>>
           /\ \A i \in 1..Len(data.v) : IsScalar(data.v[i]) ->
           Built([columns |-> <<IntLabel(0)>>,
                  rows |-> [r \in 1..Len(data.v) |-> <<data.v[r]>>]])

(***************************************************************************)
(* The replies of the Extraction Service (model.generate_content).  The    *)
(* system prompt asks for [{"Column1": "Value", "Column2": 10, ...}]; the  *)
(* service is untrusted, so the model also draws fenced, truncated,        *)
(* comma-trailed and free-text replies, replies of another JSON shape,     *)
(* and a failed call.                                                      *)
(***************************************************************************)
Keys == {<<"A">>, <<"B">>, <<"A", BT, BT, BT>>}

\* the value a generated record holds under a key (row is the record's place)
ValueOf(key, row) ==
    IF key = <<"A">> THEN Num(IF row = 1 THEN 1 ELSE 2)
    ELSE IF key = <<"B">> THEN Str(<<"x">>)
    ELSE Num(2)

\* the key lists of the generated flat records: distinct keys, in any order
KeySeqs ==
    {ks \in UNION {[1..n -> Keys] : n \in 0..MaxKeys} :
        \A i, j \in DOMAIN ks : i # j => ks[i] # ks[j]}

\* a generated array, given as the key list of each of its records
KeyArrays == UNION {[1..n -> KeySeqs] : n \in 0..MaxRecords}

RecordOf(ks, row) == Obj([j \in DOMAIN ks |-> <<ks[j], ValueOf(ks[j], row)>>])

RecordsOf(src) == Arr([i \in DOMAIN src |-> RecordOf(src[i], i)])

RECURSIVE Join(_, _)
\* sep.join(parts)
Join(parts, sep) ==
    IF parts = <<>> THEN <<>>
    ELSE IF Len(parts) = 1 THEN parts[1]
    ELSE parts[1] \o sep \o Join(Tail(parts), sep)

RECURSIVE Dumps(_)
\* the compact JSON text of a value
Dumps(val) ==
    CASE val.t = "num" -> IF val.v = 1 THEN <<"1">> ELSE <<"2">>
      [] val.t = "str" -> <<DQ>> \o val.v \o <<DQ>>
      [] val.t = "arr" ->
           <<"[">> \o Join([i \in DOMAIN val.v |-> Dumps(val.v[i])], <<",">>)
                   \o <<"]">>
      [] val.t = "obj" ->
           <<"{">> \o Join([i \in DOMAIN val.v |->
                              <<DQ>> \o val.v[i][1] \o <<DQ, ":">>
                                     \o Dumps(val.v[i][2])], <<",">>)
                   \o <<"}">>

Fences == {"none", "json", "plain", "inline"}

\* the reply text: the body as it is, or inside a markdown code fence
Wrap(fence, body) ==
    CASE fence = "none" -> body
      [] fence = "json" -> FenceJson \o <<NL>> \o body \o <<NL>> \o Fence
      [] fence = "plain" -> Fence \o <<NL>> \o body \o <<NL>> \o Fence
      [] fence = "inline" -> FenceJson \o body \o Fence

NoSrc == <<>>

Reply(fence, body, shape, src) ==
    [kind |-> "text", fence |-> fence, body |-> body, shape |-> shape,
     src |-> src, exc |-> ""]
ServiceError(exc) ==
    [kind |-> "error", fence |-> "none", body |-> <<>>, shape |-> "none",
     src |-> NoSrc, exc |-> exc]
NoResponse ==
    [kind |-> "none", fence |-> "none", body |-> <<>>, shape |-> "none",
     src |-> NoSrc, exc |-> ""]

\* response.text
ResponseText(response) == Wrap(response.fence, response.body)

\* arrays of flat records, as the system prompt asks for them
RecordReplies ==
    {Reply(f, Dumps(RecordsOf(src)), "records", src) :
        f \in Fences, src \in KeyArrays}

\* arrays of records with at most one key each: the bases of the malformed replies
SmallArrays == {src \in KeyArrays : \A i \in DOMAIN src : Len(src[i]) <= 1}

\* a reply cut short before its end
TruncatedReplies ==
    UNION {{Reply(f, SubSeq(Dumps(RecordsOf(src)), 1, k), "truncated", NoSrc) :
              k \in 0..(Len(Dumps(RecordsOf(src))) - 1)} :
           f \in Fences, src \in SmallArrays}

\* a comma before the closing bracket, or before the closing brace of the last record
TrailingComma(text, inner) ==
    IF inner
    THEN SubSeq(text, 1, Len(text) - 2) \o <<",", "}", "]">>
    ELSE SubSeq(text, 1, Len(text) - 1) \o <<",", "]">>

TrailingCommaReplies ==
    {Reply(f, TrailingComma(Dumps(RecordsOf(src)), inner), "trailing_comma", NoSrc) :
        f \in Fences, inner \in BOOLEAN,
        src \in {a \in SmallArrays : a # <<>> /\ a[Len(a)] # <<>>}}

TextAlphabet == {BT, "j", "s", "o", "n", SP}

Texts == UNION {[1..n -> TextAlphabet] : n \in 0..MaxTextLen}

\* grave accents, the word json and spaces in every order: whole fences, fences
\* inside fences, fences that only form once another is removed
Pieces == {<<BT>>, <<"j", "s", "o", "n">>, <<SP>>}

FragmentTexts == {Join(ps, <<>>) : ps \in UNION {[1..n -> Pieces] : n \in 0..MaxPieces}}

\* free prose, fence fragments included
ProseReplies == {Reply("none", t, "prose", NoSrc) : t \in Texts \cup FragmentTexts}

\* well-formed JSON that is no array of records
OtherJson ==
    {Num(1), Str(<<"x">>), Obj(<<>>), RecordOf(<<<<"A">>>>, 1),
     Arr(<<Num(1), Num(2)>>), Arr(<<RecordOf(<<<<"A">>>>, 1), Num(2)>>)}

OtherReplies == {Reply(f, Dumps(v), "other", NoSrc) : f \in Fences, v \in OtherJson}

ServiceErrors ==
    {ServiceError(e) : e \in {"ConnectionError", "PermissionDenied", "ResourceExhausted"}}

(***************************************************************************)
(* The state: the credential sources, the widgets of the sidebar, the      *)
(* session state, and what the last script run did.                        *)
(***************************************************************************)
VARIABLES
    secrets,        \* st.secrets["GOOGLE_API_KEY"], PyNone when the lookup raises
    environ,        \* os.getenv("GOOGLE_API_KEY"), PyNone when unset
    input_mode,     \* the st.radio selection
    uploaded_file,  \* the st.file_uploader value of the selected mode
    url,            \* the st.text_input value
    session_state,  \* st.session_state: chat_history, once created
    event,          \* the user interaction that started the last run
    view,           \* what the last run rendered
    exc,            \* the exception that escaped the last run, "" when none
    df,             \* df at the end of the last run's sidebar
    reads,          \* the input sources the last run read
    calls,          \* the model.generate_content calls of the last run
    response,       \* the outcome of the last run's generate_content call
    fetch,          \* the outcome of the last run's requests.get
    raw_text,       \* what scrape_url returned in the last run
    errors          \* the st.error messages of the last run

vars == <<secrets, environ, input_mode, uploaded_file, url, session_state, event,
          view, exc, df, reads, calls, response, fetch, raw_text, errors>>

PyNone == "None"

\* api_key after lines 56-59: the secret, else the environment variable
api_key == IF secrets # PyNone THEN secrets ELSE environ

\* the check written as "if api_key is None": an empty key passes
KeyMissing_none_only == api_key = PyNone

\* "if not api_key": None and the empty string are falsy
KeyMissing == api_key \in {PyNone, ""}

Modes == {"Upload File (CSV/Excel)", "Image Analysis", "Website URL",
          "Video Intelligence"}

NoFile == [ext |-> "", content |-> "none"]
TabularFiles ==
    {[ext |-> e, content |-> c] :
        e \in {"csv", "xlsx"}, c \in {"table", "header_only", "malformed"}}
ImageFiles == {[ext |-> "png", content |-> c] : c \in {"image", "corrupt"}}

\* the table a well-formed uploaded file parses to, and one with a header row only
FileTable == [columns |-> <<KeyLabel(<<"A">>)>>, rows |-> << <<Num(1)>> >>]
HeaderOnly == [columns |-> <<KeyLabel(<<"A">>)>>, rows |-> <<>>]

DFNone == [is_none |-> TRUE, value |-> EmptyDF]
DFOf(table) == [is_none |-> FALSE, value |-> table]

\* pd.read_csv / pd.read_excel on the uploaded bytes
read_tabular(file) ==
    CASE file.content = "table" -> Built(FileTable)
      [] file.content = "header_only" -> Built(HeaderOnly)
      [] file.content = "malformed" ->
           Raised(IF file.ext = "csv" THEN "ParserError" ELSE "BadZipFile",
                  "the file cannot be parsed")

\* the truncation limit of scrape_url's slice
Limit == 10000

NoUrl == [scheme |-> FALSE, len |-> 0]
\* a URL is its length and whether it names a scheme
URLs == {[scheme |-> sc, len |-> n] : sc \in BOOLEAN, n \in {25, Limit}}

NoFetch == [kind |-> "none", exc |-> "", status |-> 0, len |-> 0]
\* requests.get(url): an exception whose message is len characters long, or a
\* response with a status and a page whose visible text is len characters long.
\* requests names the URL in its message: MissingSchema twice, in
\* "Invalid URL '<url>': No scheme supplied. Perhaps you meant https://<url>?".
FetchOutcomes(u) ==
    IF ~u.scheme
    THEN {[kind |-> "exception", exc |-> "MissingSchema", status |-> 0,
           len |-> 2 * u.len + 63]}
    ELSE {[kind |-> "exception", exc |-> e, status |-> 0, len |-> u.len + 200] :
            e \in {"ConnectionError", "Timeout"}}
         \cup {[kind |-> "response", exc |-> "", status |-> st, len |-> n] :
                 st \in {200, 404},
                 n \in {0, Limit - 1, Limit} \cup {Limit + k : k \in 1..MaxOver}}

NoText == [kind |-> "none", len |-> 0]

Min(a, b) == IF a < b THEN a ELSE b

\* def scrape_url(url): the visible text cut to Limit characters, or
\* "Error scraping URL: {e}" (20 characters and the message)
scrape_url(outcome) ==
    IF outcome.kind = "exception"
    THEN [kind |-> "error", len |-> 20 + outcome.len]
    ELSE [kind |-> "page", len |-> Min(outcome.len, Limit)]

ErrorMessage(prefix, e, msg) == [prefix |-> prefix, exc |-> e, msg |-> msg]

\* the handler of lines 99-101: st.error(f"AI Extraction Failed: {e}") and an
\* empty DataFrame
Failed(e, msg) ==
    [df |-> EmptyDF, errors |-> <<ErrorMessage("AI Extraction Failed", e, msg)>>]

\* line 98 on the frame pd.DataFrame built, or on what it raised
Framed(frame) ==
    IF ~frame.ok THEN Failed(frame.exc, frame.msg)
    ELSE [df |-> frame.df, errors |-> <<>>]

\* lines 97-98 on what json.loads returned, or on what it raised
Tabulate(data) ==
    IF ~data.ok THEN Failed(data.exc, data.msg) ELSE Framed(DataFrame(data.val))

\* a silent handler: the empty table and no st.error
Silent(data) ==
    IF ~data.ok \/ ~DataFrame(data.val).ok
    THEN [df |-> EmptyDF, errors |-> <<>>]
    ELSE [df |-> DataFrame(data.val).df, errors |-> <<>>]

\* gemini_data_extractor with "except Exception: return pd.DataFrame()"
gemini_data_extractor_silent(outcome) ==
    IF outcome.kind = "error"
    THEN [df |-> EmptyDF, errors |-> <<>>]
    ELSE Silent(json_loads(clean_json_string(ResponseText(outcome))))

\* def gemini_data_extractor(prompt, content), lines 94-101, on the outcome of
\* model.generate_content: the table, or an empty one and an st.error
gemini_data_extractor(outcome) ==
    IF outcome.kind = "error"
    THEN Failed(outcome.exc, "")
    ELSE Tabulate(json_loads(clean_json_string(ResponseText(outcome))))

(***************************************************************************)
(* One script run, lines 56-248.                                           *)
(***************************************************************************)
Call(purpose, content) == [purpose |-> purpose, content |-> content]
ImageContent == [kind |-> "image", len |-> 0]
ChatContent == [kind |-> "chat", len |-> 0]

Side(crashed, e, frame, rd, cl, resp, fo, text, errs) ==
    [crashed |-> crashed, exc |-> e, df |-> frame, reads |-> rd, calls |-> cl,
     response |-> resp, fetch |-> fo, raw_text |-> text, errors |-> errs]

NoSide == Side(FALSE, "", DFNone, <<>>, <<>>, NoResponse, NoFetch, NoText, <<>>)

\* lines 125-128 on what the reader returned, or on what it raised
ParsedSide(parsed, reader) ==
    IF ~parsed.ok
    THEN Side(TRUE, parsed.exc, DFNone, <<reader>>, <<>>, NoResponse, NoFetch, NoText,
              <<>>)
    ELSE Side(FALSE, "", DFOf(parsed.df), <<reader>>, <<>>, NoResponse, NoFetch,
              NoText, <<>>)

\* the "Upload File (CSV/Excel)" branch, lines 122-128: nothing catches a parse error
FileBranch(file) ==
    IF file = NoFile THEN NoSide
    ELSE ParsedSide(read_tabular(file),
                    IF file.ext = "csv" THEN "pd.read_csv" ELSE "pd.read_excel")

\* "df = gemini_data_extractor(prompt, content)", lines 136 and 144
ExtractedSide(got, read, content, outcome, fo, text) ==
    Side(FALSE, "", DFOf(got.df), <<read>>, <<Call("extract", content)>>, outcome, fo,
         text, got.errors)

\* the "Image Analysis" branch, lines 130-136: Image.open is outside any try
ImageBranch(file, button, outcome) ==
    IF file = NoFile \/ ~button THEN NoSide
    ELSE IF file.content = "corrupt"
    THEN Side(TRUE, "UnidentifiedImageError", DFNone, <<"Image.open">>, <<>>,
              NoResponse, NoFetch, NoText, <<>>)
    ELSE ExtractedSide(gemini_data_extractor(outcome), "Image.open", ImageContent,
                       outcome, NoFetch, NoText)

\* the "Website URL" branch, lines 138-144
UrlBranch(u, button, fo, outcome) ==
    IF u = NoUrl \/ ~button THEN NoSide
    ELSE ExtractedSide(gemini_data_extractor(outcome), "requests.get",
                       scrape_url(fo), outcome, fo, scrape_url(fo))

\* the sidebar, lines 113-154
Sidebar(mode, file, u, button, fo, outcome) ==
    CASE mode = "Upload File (CSV/Excel)" -> FileBranch(file)
      [] mode = "Image Analysis" -> ImageBranch(file, button, outcome)
      [] mode = "Website URL" -> UrlBranch(u, button, fo, outcome)
      [] mode = "Video Intelligence" -> NoSide

NoPrompt == ""
NoSession == [has_chat_history |-> FALSE, chat_history |-> <<>>]
Message(role, content) == [role |-> role, content |-> content]

\* the chat interface of tab3, lines 218-237, on the outcome of
\* model.generate_content(ai_prompt)
Chat(ss, prompt, outcome) ==
    LET history == IF ss.has_chat_history THEN ss.chat_history ELSE <<>>
        asked == Append(history, Message("user", prompt))
    IN  IF prompt = NoPrompt
        THEN [session |-> [has_chat_history |-> TRUE, chat_history |-> history],
              calls |-> <<>>, response |-> NoResponse, errors |-> <<>>]
        ELSE IF outcome.kind = "error"
        THEN [session |-> [has_chat_history |-> TRUE, chat_history |-> asked],
              calls |-> <<Call("chat", ChatContent)>>, response |-> outcome,
              errors |-> <<ErrorMessage("Error", outcome.exc, "")>>]
        ELSE [session |-> [has_chat_history |-> TRUE,
                           chat_history |->
                               Append(asked, Message("assistant", outcome.body))],
              calls |-> <<Call("chat", ChatContent)>>, response |-> outcome,
              errors |-> <<>>]

\* line 158 without "and not df.empty"
ShowsDashboard_not_none(frame) == ~frame.is_none

\* line 158: "if df is not None and not df.empty"
ShowsDashboard(frame) == ~frame.is_none /\ ~IsEmpty(frame.value)

RunResult(v, e, frame, rd, cl, resp, fo, text, errs, ss) ==
    [view |-> v, exc |-> e, df |-> frame, reads |-> rd, calls |-> cl,
     response |-> resp, fetch |-> fo, raw_text |-> text, errors |-> errs,
     session |-> ss]

\* the main branch, lines 158-237, with the chat interface's part of the run
Dashboard(side, chat) ==
    RunResult("dashboard", "", side.df, side.reads, side.calls \o chat.calls,
              IF chat.calls # <<>> THEN chat.response ELSE side.response,
              side.fetch, side.raw_text, side.errors \o chat.errors, chat.session)

\* lines 113-247 on what the sidebar did: an escaped exception ends the run, a
\* table renders the dashboard, anything else the landing page
Main(ss, side, prompt, answer) ==
    IF side.crashed
    THEN RunResult("exception", side.exc, side.df, side.reads, side.calls,
                   side.response, side.fetch, side.raw_text, side.errors, ss)
    ELSE IF ShowsDashboard(side.df)
    THEN Dashboard(side, Chat(ss, prompt, answer))
    ELSE RunResult("landing", "", side.df, side.reads, side.calls, side.response,
                   side.fetch, side.raw_text, side.errors, ss)

\* the whole script on the widget values of this run: button is the value of the
\* branch's st.button, prompt that of st.chat_input when it is reached; fo, outcome
\* and answer are what requests.get, the extractor's model.generate_content and
\* the chat's model.generate_content do when they are called
Script(ss, mode, file, u, button, prompt, fo, outcome, answer) ==
    IF KeyMissing
    THEN RunResult("stopped", "", DFNone, <<>>, <<>>, NoResponse, NoFetch, NoText,
                   <<ErrorMessage("System Error: API Key missing.", "", "")>>, ss)
    ELSE Main(ss, Sidebar(mode, file, u, button, fo, outcome), prompt, answer)

(***************************************************************************)
(* The user's interactions.  Each one sets a widget and starts a script    *)
(* run; a button reads True only in the run its click starts, and a        *)
(* widget the run does not render loses its value.                         *)
(***************************************************************************)
Init ==
    /\ secrets \in {PyNone, "", "sk-secret"}
    /\ environ \in {PyNone, "", "sk-env"}
    /\ input_mode = "Upload File (CSV/Excel)"
    /\ uploaded_file = NoFile
    /\ url = NoUrl
    /\ session_state = NoSession
    /\ event = "none"
    /\ view = "none"
    /\ exc = ""
    /\ df = DFNone
    /\ reads = <<>>
    /\ calls = <<>>
    /\ response = NoResponse
    /\ fetch = NoFetch
    /\ raw_text = NoText
    /\ errors = <<>>

Run(ev, mode, file, u, button, prompt, fo, outcome, answer) ==
    \E run \in {Script(session_state, mode, file, u, button, prompt, fo, outcome,
                       answer)} :
        /\ event' = ev
        /\ input_mode' = mode
        /\ uploaded_file' = file
        /\ url' = u
        /\ session_state' = run.session
        /\ view' = run.view
        /\ exc' = run.exc
        /\ df' = run.df
        /\ reads' = run.reads
        /\ calls' = run.calls
        /\ response' = run.response
        /\ fetch' = run.fetch
        /\ raw_text' = run.raw_text
        /\ errors' = run.errors
        /\ UNCHANGED <<secrets, environ>>

\* the sidebar's widgets are on the page: the last run got past st.stop()
Rendered == view \in {"landing", "dashboard", "exception"}

\* the first run of the session
Start ==
    /\ view = "none"
    /\ Run("start", input_mode, uploaded_file, url, FALSE, NoPrompt, NoFetch,
           NoResponse, NoResponse)

\* a rerun that changes no widget (the download button, the browser's reload)
Rerun ==
    /\ view # "none"
    /\ Run("rerun", input_mode, uploaded_file, url, FALSE, NoPrompt, NoFetch,
           NoResponse, NoResponse)

SelectMode(m) ==
    /\ Rendered
    /\ m # input_mode
    /\ Run("select", m, NoFile, NoUrl, FALSE, NoPrompt, NoFetch, NoResponse,
           NoResponse)

UploadFile(f) ==
    /\ Rendered
    /\ f # uploaded_file
    /\ \/ input_mode = "Upload File (CSV/Excel)" /\ f \in TabularFiles \cup {NoFile}
       \/ input_mode = "Image Analysis" /\ f \in ImageFiles \cup {NoFile}
    /\ Run("upload", input_mode, f, url, FALSE, NoPrompt, NoFetch, NoResponse,
           NoResponse)

EnterUrl(u) ==
    /\ Rendered
    /\ input_mode = "Website URL"
    /\ u # url
    /\ Run("url", input_mode, uploaded_file, u, FALSE, NoPrompt, NoFetch, NoResponse,
           NoResponse)

\* a click on "Extract Data", which is on the page once a file is uploaded
PressExtract(outcomes) ==
    /\ Rendered
    /\ input_mode = "Image Analysis"
    /\ uploaded_file # NoFile
    /\ \E outcome \in outcomes :
          Run("extract", input_mode, uploaded_file, url, TRUE, NoPrompt, NoFetch,
              outcome, NoResponse)

\* a click on "Scrape & Structure", which is on the page once a URL is entered
PressScrape(outcomes) ==
    /\ Rendered
    /\ input_mode = "Website URL"
    /\ url # NoUrl
    /\ \E fo \in FetchOutcomes(url), outcome \in outcomes :
          Run("scrape", input_mode, uploaded_file, url, TRUE, NoPrompt, fo, outcome,
              NoResponse)

Questions == {"q"}

ChatOutcomes ==
    {Reply("none", <<"o", "n">>, "chat", NoSrc), ServiceError("ResourceExhausted")}

ChatHistory == IF session_state.has_chat_history THEN session_state.chat_history
               ELSE <<>>

\* a question typed into st.chat_input, which is on the page with the dashboard
SubmitChat ==
    /\ view = "dashboard"
    /\ Len(ChatHistory) + 2 <= MaxChat
    /\ \E q \in Questions, answer \in ChatOutcomes :
          Run("chat", input_mode, uploaded_file, url, FALSE, q, NoFetch, NoResponse,
              answer)

\* the spec's scenario [{"A":1},{"A":2,"B":"x"}]
ScenarioSrc == << << <<"A">> >>, << <<"A">>, <<"B">> >> >>

\* the replies the session model draws: records, an empty array, a record without
\* keys, a truncated reply, prose, and a failed call
AppOutcomes ==
    {Reply(f, Dumps(RecordsOf(src)), "records", src) :
        f \in {"none", "json"}, src \in {<<>>, << <<>> >>, ScenarioSrc}}
    \cup {Reply("none", SubSeq(Dumps(RecordsOf(ScenarioSrc)), 1, 12), "truncated",
                NoSrc),
          Reply("none", <<"n", "o">>, "prose", NoSrc),
          ServiceError("ResourceExhausted")}

Next ==
    \/ Start
    \/ Rerun
    \/ \E m \in Modes : SelectMode(m)
    \/ \E f \in TabularFiles \cup ImageFiles \cup {NoFile} : UploadFile(f)
    \/ \E u \in URLs \cup {NoUrl} : EnterUrl(u)
    \/ PressExtract(AppOutcomes)
    \/ PressScrape(AppOutcomes)
    \/ SubmitChat

Spec == Init /\ [][Next]_vars

(***************************************************************************)
(* The normalizer alone: a session with a decodable image uploaded, in     *)
(* which the first click on "Extract Data" draws one reply of the service. *)
(***************************************************************************)
NormalizerOutcomes ==
    RecordReplies \cup TruncatedReplies \cup TrailingCommaReplies
    \cup ProseReplies \cup OtherReplies \cup ServiceErrors

InitNormalizer ==
    /\ secrets = "sk-secret"
    /\ environ = PyNone
    /\ input_mode = "Image Analysis"
    /\ uploaded_file = [ext |-> "png", content |-> "image"]
    /\ url = NoUrl
    /\ session_state = NoSession
    /\ event = "upload"
    /\ view = "landing"
    /\ exc = ""
    /\ df = DFNone
    /\ reads = <<>>
    /\ calls = <<>>
    /\ response = NoResponse
    /\ fetch = NoFetch
    /\ raw_text = NoText
    /\ errors = <<>>

Normalize == event = "upload" /\ PressExtract(NormalizerOutcomes)

NextNormalizer == Normalize

SpecNormalizer == InitNormalizer /\ [][NextNormalizer]_vars

(***************************************************************************)
(* Properties.                                                             *)
(***************************************************************************)
RECURSIVE IsSubsequence(_, _)
\* a is b with some characters removed, the rest in their order
IsSubsequence(a, b) ==
    IF a = <<>> THEN TRUE
    ELSE IF b = <<>> THEN FALSE
    ELSE IF Head(a) = Head(b) THEN IsSubsequence(Tail(a), Tail(b))
    ELSE IsSubsequence(a, Tail(b))

\* the last run was a click on "Extract Data" that the service answered with text
Extracted == event = "extract" /\ response.kind = "text"

\* the reply's body is a well-formed JSON array
IsArrayBody(resp) ==
    /\ resp.shape \in {"records", "other"}
    /\ Head(resp.body) = "["

\* what the extractor makes of the same body without its fence
Unwrapped(resp) ==
    gemini_data_extractor(Reply("none", resp.body, resp.shape, resp.src))

\* C1: a JSON array inside a markdown fence gives the table (and the messages)
\* that the same array without the fence gives; clean_json_string applied twice
\* gives what it gives applied once, and what it returns is its argument with
\* characters removed, the others in their order.
C1_FenceStripping ==
    Extracted =>
        LET text == ResponseText(response)
            once == clean_json_string(text)
        IN  /\ clean_json_string(once) = once
            /\ IsSubsequence(once, text)
            /\ IsArrayBody(response) =>
                  /\ df = DFOf(Unwrapped(response).df)
                  /\ errors = Unwrapped(response).errors

\* C1's case: the spec's scenario inside a json fence, and its two records extracted
C1_Witness ==
    /\ Extracted
    /\ response.fence = "json"
    /\ response.src = ScenarioSrc
    /\ Len(df.value.rows) = 2
    /\ clean_json_string(ResponseText(response)) # ResponseText(response)

RECURSIVE Flatten(_)
Flatten(src) == IF src = <<>> THEN <<>> ELSE Head(src) \o Flatten(Tail(src))

RECURSIVE FirstSeen(_, _)
\* the keys of a list, each at its first place
FirstSeen(keys, seen) ==
    IF keys = <<>> THEN seen
    ELSE FirstSeen(Tail(keys),
                   IF \E i \in DOMAIN seen : seen[i] = Head(keys)
                   THEN seen ELSE Append(seen, Head(keys)))

\* the column list the records of a generated array call for
ExpectedColumns(src) ==
    LET keys == FirstSeen(Flatten(src), <<>>)
    IN  [i \in DOMAIN keys |-> KeyLabel(keys[i])]

\* the cell the records of a generated array call for
ExpectedCell(src, row, label) ==
    IF \E j \in DOMAIN src[row] : src[row][j] = label.v
    THEN ValueOf(label.v, row)
    ELSE NaN

TableOfRecords(src) ==
    /\ errors = <<>>
    /\ ~df.is_none
    /\ Len(df.value.rows) = Len(src)
    /\ df.value.columns = ExpectedColumns(src)
    /\ \A r \in DOMAIN df.value.rows : \A c \in DOMAIN df.value.columns :
          df.value.rows[r][c] = ExpectedCell(src, r, df.value.columns[c])

\* C2: a reply that is a JSON array of N flat records gives a table of N records
\* whose columns are the records' keys in first-seen order, with a null cell
\* where a record lacks the key.
C2_TableOfRecords ==
    (Extracted /\ response.shape = "records") => TableOfRecords(response.src)

HasFence(key) == \E i \in 1..(Len(key) - 2) : SubSeq(key, i, i + 2) = Fence

\* C2 where it holds: no key of the records contains a fence marker
C2_WithoutFenceInKeys ==
    (/\ Extracted
     /\ response.shape = "records"
     /\ \A i \in DOMAIN response.src : \A j \in DOMAIN response.src[i] :
           ~HasFence(response.src[i][j]))
    => TableOfRecords(response.src)

\* C3: a reply that is not JSON after fence-stripping (truncated, a trailing
\* comma, prose) ends in one "AI Extraction Failed" message that carries the
\* parser's message, no exception escapes, and the table is empty.
C3_MalformedReplyFails ==
    (Extracted /\ response.shape \in {"truncated", "trailing_comma", "prose"}) =>
        /\ view = "landing"
        /\ exc = ""
        /\ df = DFOf(EmptyDF)
        /\ Len(errors) = 1
        /\ errors[1].prefix = "AI Extraction Failed"
        /\ errors[1].exc = "JSONDecodeError"
        /\ errors[1].msg # ""
        /\ errors[1].msg = json_loads(clean_json_string(ResponseText(response))).msg

\* C3's case: a reply cut after its first complete record
C3_Witness ==
    /\ Extracted
    /\ response.shape = "truncated"
    /\ response.body = SubSeq(Dumps(RecordsOf(<< << <<"A">> >>, << <<"B">> >> >>)),
                              1, 10)
    /\ errors # <<>>

ExtractionFailed ==
    \E i \in DOMAIN errors : errors[i].prefix = "AI Extraction Failed"

\* C4: a run whose extraction failed renders the landing state and holds no
\* table data; the dashboard is rendered only for a table with at least one
\* record; an extracted table of zero records gives the landing state without
\* an error message.
C4_FailedShowsLanding ==
    /\ ExtractionFailed => view = "landing" /\ df = DFOf(EmptyDF)
    /\ view = "dashboard" =>
          ~df.is_none /\ Len(df.value.rows) >= 1 /\ ~ExtractionFailed
    /\ (/\ event \in {"extract", "scrape"}
        /\ response.kind = "text"
        /\ response.shape = "records"
        /\ response.src = <<>>)
       => view = "landing" /\ errors = <<>> /\ df = DFOf(EmptyDF)

\* C4's case: a scrape whose reply was cut short
C4_Witness ==
    /\ event = "scrape"
    /\ response.shape = "truncated"
    /\ ExtractionFailed
    /\ view = "landing"

FetchFailed == fetch.kind = "exception" \/ (fetch.kind = "response" /\ fetch.status >= 400)

\* C5: scrape_url never raises; a failed fetch (an exception, an HTTP error
\* status) gives an error description, and only a successful fetch gives the
\* page's visible text.
C5_ScrapeReportsFailure ==
    event = "scrape" =>
        /\ exc = ""
        /\ FetchFailed => raw_text.kind = "error"
        /\ raw_text.kind = "page" => ~FetchFailed

\* C6: an acquisition error of the file and image paths is shown as a message,
\* without a call to the service and without an exception escaping the run.
C6_AcquisitionErrorCaught ==
    (reads # <<>> /\ uploaded_file.content \in {"malformed", "corrupt"}) =>
        /\ calls = <<>>
        /\ exc = ""
        /\ view # "exception"
        /\ errors # <<>>

\* C7: a failed call to the service is not retried, shows a message, and leaves
\* the session state as it was before the action: chat_history after a failed
\* chat question is chat_history before it.
C7_FailedCallKeepsSession ==
    [][(response'.kind = "error" /\ event' \in {"extract", "scrape", "chat"}) =>
          /\ Len(calls') = 1
          /\ errors' # <<>>
          /\ ChatHistory' = ChatHistory]_vars

\* C8: the key is the secret or, when the secret is absent, the environment
\* variable; when neither supplies a non-empty key every run stops before it
\* reads an input, calls the service or renders the landing page or dashboard.
C8_MissingKeyStops ==
    /\ (secrets \in {PyNone, ""} /\ environ \in {PyNone, ""} /\ view # "none") =>
          /\ view = "stopped"
          /\ reads = <<>>
          /\ calls = <<>>
          /\ df = DFNone
          /\ session_state = NoSession
          /\ errors = <<ErrorMessage("System Error: API Key missing.", "", "")>>
    /\ (secrets = "sk-secret" /\ view # "none") => view # "stopped"
    /\ (secrets = PyNone /\ environ = "sk-env" /\ view # "none") => view # "stopped"

\* C8's case: an empty environment variable and no secret, after a rerun
C8_Witness ==
    /\ secrets = PyNone
    /\ environ = ""
    /\ event = "rerun"
    /\ view = "stopped"

\* C9: every text the Website URL path hands to the service is at most Limit
\* characters long, the page text and the error description alike.
C9_TextWithinLimit ==
    \A i \in DOMAIN calls :
        calls[i].content.kind \in {"page", "error"} => calls[i].content.len <= Limit

\* C10: after an image or URL extraction rendered the dashboard, a chat
\* question still sees the table: the dashboard stays and the question is
\* recorded in chat_history.
C10_TableHeldForSession ==
    [][(/\ view = "dashboard"
        /\ input_mode \in {"Image Analysis", "Website URL"}
        /\ event' = "chat")
       => /\ view' = "dashboard"
          /\ df' = df
          /\ Len(ChatHistory') > Len(ChatHistory)]_vars

=============================================================================
